---- MODULE Spec2Model ----
(***************************************************************************)
(* Ride matching, seat inventory and pooling negotiation of src/app.py.    *)
(*                                                                         *)
(* The three MongoDB collections rides, ride_requests and pool_requests    *)
(* are sequences of documents; the _id of a document is its index.  Every  *)
(* HTTP handler is one action (specification Spec).  The specification     *)
(* SpecConc additionally runs accept_ride_match and cancel_ride_request    *)
(* as the sequence of database calls they make, so that two requests can   *)
(* interleave between a find_one and the update_one that follows it.       *)
(*                                                                         *)
(* Locations are points on one meridian, given by their arc position in    *)
(* whole kilometres; the great-circle distance of two such points is the   *)
(* difference of their positions.  Prices are in cents.                    *)
(*                                                                         *)
(* SpecGeo applies the haversine formula of calculate_distance, in fixed   *)
(* point, to points [lng, lat] of a grid on the whole sphere.              *)
(*                                                                         *)
(* SpecSim is the in-memory matching simulation of src/app1.py, every      *)
(* handler run to completion; SpecSimConc runs its accept_ride in two      *)
(* steps, so that two calls can interleave.                                *)
(***************************************************************************)
EXTENDS Integers, Sequences, FiniteSets, TLC

\* ------------------------------------------------------------------ bounds
MaxTrips == 1
MaxRequests == 1        \* ride requests in Spec and SpecPool
MaxConcRequests == 2    \* ride requests in SpecConc and SpecBook
MaxPools == 1
MaxSeats == 2
MaxRiders == 2          \* rider entries of one ride
MaxAvail == 3           \* available_seats a no_show may still raise
MaxCalls == 2           \* handlers in flight in SpecConc
MatchTrips == 6         \* rides the matcher looks at in SpecMatch
SearchTrips == 3        \* rides the search looks at in SpecSearch
MaxSimRides == 2        \* accept_ride calls of the simulation
MaxSimRequests == 2     \* request_ride calls of the simulation
MaxShares == 1          \* entries of one rider's matched_riders
MaxPoints == 100        \* points after which complete_ride is not called

\* ------------------------------------------------------- program constants
RIDE_MATCHING_RADIUS_KM == 5
TopK == 5
BaseFareCents == 250
PricePerKmCents == 150
PricePerMinuteCents == 25
AvgSpeedKmh == 30
TimeWindowHours == 2

\* --------------------------------------------------------------- the users
Nobody == "nobody"
UserIds == {"d1", "d2", "r1", "r2"}

\* users_collection: the documents token_required loads into current_user.
users ==
  [u \in UserIds |->
     CASE u = "d1" -> [user_type |-> "driver", is_verified |-> TRUE]
       [] u = "d2" -> [user_type |-> "driver", is_verified |-> FALSE]
       [] OTHER    -> [user_type |-> "rider",  is_verified |-> FALSE]]

TripStatuses == {"active", "in_progress", "completed", "cancelled"}
RequestStatuses ==
  {"pending", "matching", "matched", "in_progress", "completed", "cancelled"}
PoolStatuses ==
  {"pending", "primary_rider_accepted", "accepted",
   "rejected_by_primary_rider", "rejected_by_driver"}
PoolTerminal == {"accepted", "rejected_by_primary_rider", "rejected_by_driver"}
\* valid_statuses of update_rider_status
ValidRiderStatuses == {"confirmed", "picked_up", "dropped_off", "no_show"}
\* a rider entry pushed by driver_pool_action carries no status field
NoStatus == "none"

\* inputs
Drivers == {"d1", "d2"}
RiderStatusInputs == {"picked_up", "no_show", "other"}
NoChange == "no_change"
RideRoutes == {<<0, 10>>}
\* times are whole hours
Noon == 12
Departures == {Noon}
RequestRoutes == {<<1, 9>>}
CreateSeats == 0..MaxSeats
UpdateSeats == (-1)..MaxSeats
RequestSeats == (-1)..MaxSeats
\* bodies of PUT /api/rides/<id>: no field, a status, or an available_seats
UpdateBodies ==
  {<<NoChange, <<>> >>} \cup {<<st, <<>> >> : st \in TripStatuses}
    \cup {<<NoChange, <<n>> >> : n \in UpdateSeats}
Requesters == {"r1", "r2"}
PoolActions == {"accept", "reject", "other"}
Reasons == {""}
NoReason == "absent"
NoPrice == -1
NoTrip == 0

\* notifications: the number of documents of the notifications collection
VARIABLES rides, requests, pool_requests, calls, result, notifications

\* the in-memory dictionaries and the demand grid of src/app1.py
VARIABLES drivers, riders, active_rides, demand_grid
sim_vars == <<drivers, riders, active_rides, demand_grid>>

vars == <<rides, requests, pool_requests, calls, result, notifications,
          sim_vars>>

\* ----------------------------------------------------------------- helpers
Abs(x) == IF x < 0 THEN -x ELSE x

calculate_distance(point1, point2) == Abs(point1 - point2)

\* ---------------------------------------------------------------- geodesy
\* calculate_distance on points [lng, lat] anywhere on the sphere, in fixed
\* point: angles are whole degrees in steps of 15, sines and cosines are in
\* hundredths, a is in ten-thousandths.
EarthRadiusKm == 6371
TrigScale == 100

\* math.sin at 0, 15, ..., 180 degrees
SinTable == <<0, 26, 50, 71, 87, 97, 100, 97, 87, 71, 50, 26, 0>>

sin_deg(x) ==
  IF x < 0 THEN -SinTable[((-x) \div 15) + 1] ELSE SinTable[(x \div 15) + 1]

cos_deg(x) == sin_deg(90 - Abs(x))

\* the a of the formula with cos(lat1) squared in place of
\* cos(lat1) * cos(lat2)
haversine_a_first_latitude(point1, point2) ==
  LET lat1 == point1[2]
      lon1 == point1[1]
      lat2 == point2[2]
      lon2 == point2[1]
      dlon == lon2 - lon1
      dlat == lat2 - lat1
  IN sin_deg(dlat \div 2) * sin_deg(dlat \div 2)
       + (cos_deg(lat1) * cos_deg(lat1)
            * sin_deg(dlon \div 2) * sin_deg(dlon \div 2))
         \div (TrigScale * TrigScale)

\* a = sin(dlat / 2)**2 + cos(lat1) * cos(lat2) * sin(dlon / 2)**2
haversine_a(point1, point2) ==
  LET lat1 == point1[2]
      lon1 == point1[1]
      lat2 == point2[2]
      lon2 == point2[1]
      dlon == lon2 - lon1
      dlat == lat2 - lat1
  IN sin_deg(dlat \div 2) * sin_deg(dlat \div 2)
       + (cos_deg(lat1) * cos_deg(lat2)
            * sin_deg(dlon \div 2) * sin_deg(dlon \div 2))
         \div (TrigScale * TrigScale)

\* atan2(sqrt(a), sqrt(1 - a)) in degrees: the least angle of the table
\* whose squared sine reaches a
half_angle(a) ==
  LET reach == {h \in 0..6 : sin_deg(15 * h) * sin_deg(15 * h) >= a}
  IN IF reach = {} THEN 90
     ELSE 15 * (CHOOSE h \in reach : \A g \in reach : h <= g)

\* distance = R * c with c = 2 * atan2(...) in radians, pi taken as 355/113
haversine(point1, point2) ==
  (EarthRadiusKm * 2 * half_angle(haversine_a(point1, point2)) * 355)
    \div (180 * 113)

calculate_price(distance_km, duration_minutes) ==
  BaseFareCents + distance_km * PricePerKmCents
                + duration_minutes * PricePerMinuteCents

\* ((pickup_distance + dropoff_distance) / 30) * 60
EstimatedDuration(distance_km) == (distance_km * 60) \div AvgSpeedKmh

RECURSIVE SumSeats(_)
SumSeats(rs) ==
  IF rs = <<>> THEN 0 ELSE Head(rs).seats + SumSeats(Tail(rs))

\* seats of the assignments whose status is neither cancelled nor no_show
SeatsHeld(ride) ==
  SumSeats(SelectSeq(ride.riders,
                     LAMBDA r : r.status \notin {"cancelled", "no_show"}))

\* index of the first rider entry of a rider, 0 when there is none
FirstIndex(rs, rider_id) ==
  IF \E i \in 1..Len(rs) : rs[i].rider_id = rider_id
  THEN CHOOSE i \in 1..Len(rs) :
         /\ rs[i].rider_id = rider_id
         /\ \A j \in 1..(i - 1) : rs[j].rider_id # rider_id
  ELSE 0

Result(op, kind) == [op |-> op, kind |-> kind]

\* history counters tell none, one and more than one apart
Bump(n) == IF n < 2 THEN n + 1 ELSE n

\* a handler in flight: its position, its arguments, the documents it has read
NoRequest ==
  [rider_id |-> Nobody, pickup_location |-> 0, dropoff_location |-> 0,
   requested_seats |-> 0, status |-> "none", potential_matches |-> <<>>,
   matched_ride_id |-> NoTrip, price |-> NoPrice, released |-> 0,
   before |-> <<>>]
Idle ==
  [op |-> "idle", pc |-> "idle", user |-> Nobody, q |-> 0, t |-> NoTrip,
   ride_request |-> NoRequest, price |-> NoPrice]

\* the dictionaries of src/app1.py are empty, the demand grid is all zero
SimLocations == {<<0, 0>>}
GRID_SIZE == 10

grid_cell(location) ==
  <<IF location[1] * GRID_SIZE < GRID_SIZE - 1 THEN location[1] * GRID_SIZE
    ELSE GRID_SIZE - 1,
    IF location[2] * GRID_SIZE < GRID_SIZE - 1 THEN location[2] * GRID_SIZE
    ELSE GRID_SIZE - 1>>

SimCells == {grid_cell(location) : location \in SimLocations}

SimInit ==
  /\ drivers = <<>>
  /\ riders = <<>>
  /\ active_rides = <<>>
  /\ demand_grid = [cell \in SimCells |-> 0]

\* ------------------------------------------------------------------- Init
Init ==
  /\ rides = <<>>
  /\ requests = <<>>
  /\ pool_requests = <<>>
  /\ calls = [c \in 1..MaxCalls |-> Idle]
  /\ result = Result("none", "none")
  /\ notifications = 0
  /\ SimInit

\* ------------------------------------------------------------ create_ride
create_ride_outcome(u, seats) ==
  IF users[u].user_type # "driver" THEN "Unauthorized"
  ELSE IF ~users[u].is_verified THEN "Unauthorized"
  ELSE IF seats = 0 THEN "InvalidInput"
  ELSE "OK"

new_ride(u, route, departure_time, seats) ==
  [driver_id |-> u, start_location |-> route[1], end_location |-> route[2],
   departure_time |-> departure_time,
   available_seats |-> seats,
   capacity |-> seats,      \* history: available_seats at creation
   seats_edited |-> FALSE,  \* history: update_ride has set available_seats
   status |-> "active", shareable |-> FALSE, riders |-> <<>>]

create_ride(u, route, departure_time, seats) ==
  LET kind == create_ride_outcome(u, seats) IN
  /\ kind = "OK" => Len(rides) < MaxTrips
  /\ rides' = IF kind = "OK" THEN Append(rides,
                                         new_ride(u, route, departure_time, seats))
              ELSE rides
  /\ result' = Result("create_ride", kind)
  /\ UNCHANGED <<requests, pool_requests, calls>>
  /\ UNCHANGED notifications
  /\ UNCHANGED sim_vars

\* ------------------------------------------------------------ match_rides
RECURSIVE InsertSorted(_, _, _)
InsertSorted(s, x, key) ==
  IF s = <<>> THEN <<x>>
  ELSE IF key[x] < key[Head(s)] THEN <<x>> \o s
  ELSE <<Head(s)>> \o InsertSorted(Tail(s), x, key)

\* list.sort(key=...): ascending, equal keys keep their order
RECURSIVE StableSort(_, _)
StableSort(s, key) ==
  IF s = <<>> THEN <<>>
  ELSE InsertSorted(StableSort(SubSeq(s, 1, Len(s) - 1), key), s[Len(s)], key)

RECURSIVE SeqOfSet(_)
SeqOfSet(S) ==
  IF S = {} THEN <<>>
  ELSE LET m == CHOOSE x \in S : \A y \in S : x <= y
       IN <<m>> \o SeqOfSet(S \ {m})

\* find_nearby_rides without the status filter of its query
find_nearby_rides_any_status(location, radius_km) ==
  LET near == {t \in 1..Len(rides) :
                 calculate_distance(location, rides[t].start_location)
                   <= radius_km}
      dist == [t \in near |->
                 calculate_distance(location, rides[t].start_location)]
  IN StableSort(SeqOfSet(near), dist)

\* ids of the active rides whose start lies within radius_km, nearest first
find_nearby_rides(location, radius_km) ==
  LET near == {t \in 1..Len(rides) :
                 /\ rides[t].status = "active"
                 /\ calculate_distance(location, rides[t].start_location)
                      <= radius_km}
      dist == [t \in near |->
                 calculate_distance(location, rides[t].start_location)]
  IN StableSort(SeqOfSet(near), dist)

\* match_rides without matches.sort: the candidates in the order of the query
match_rides_unsorted(pickup, dropoff) ==
  LET nearby == find_nearby_rides(pickup, RIDE_MATCHING_RADIUS_KM)
      pickup_distance(t) == calculate_distance(pickup, rides[t].start_location)
      dropoff_distance(t) == calculate_distance(dropoff, rides[t].end_location)
  IN SelectSeq(nearby, LAMBDA t :
       /\ pickup_distance(t) <= RIDE_MATCHING_RADIUS_KM
       /\ dropoff_distance(t) <= RIDE_MATCHING_RADIUS_KM)

match_rides(pickup, dropoff) ==
  LET nearby == find_nearby_rides(pickup, RIDE_MATCHING_RADIUS_KM)
      pickup_distance(t) == calculate_distance(pickup, rides[t].start_location)
      dropoff_distance(t) == calculate_distance(dropoff, rides[t].end_location)
      good == SelectSeq(nearby, LAMBDA t :
                /\ pickup_distance(t) <= RIDE_MATCHING_RADIUS_KM
                /\ dropoff_distance(t) <= RIDE_MATCHING_RADIUS_KM)
      score == [t \in 1..Len(rides) |-> pickup_distance(t) + dropoff_distance(t)]
  IN StableSort(good, score)

\* matches[:5] without the slice
FirstK_untruncated(s, k) == s

FirstK(s, k) == SubSeq(s, 1, IF Len(s) < k THEN Len(s) ELSE k)

\* ----------------------------------------------------------- search_rides
\* in_window with the two ends of the window left out
in_window_exclusive(ride_departure, departure_time) ==
  /\ departure_time - TimeWindowHours < ride_departure
  /\ ride_departure < departure_time + TimeWindowHours

\* lines 672-678: $gte departure_time - 2 hours, $lte departure_time + 2 hours
in_window(ride_departure, departure_time) ==
  /\ departure_time - TimeWindowHours <= ride_departure
  /\ ride_departure <= departure_time + TimeWindowHours

\* lines 656-681: the rides the query finds, nearest first; departure_time
\* is <<>> when the body has none
search_query(pickup, radius_km, departure_time) ==
  LET found == {t \in 1..Len(rides) :
                  /\ rides[t].status = "active"
                  /\ rides[t].available_seats >= 1
                  /\ calculate_distance(pickup, rides[t].start_location)
                       <= radius_km
                  /\ departure_time # <<>>
                       => in_window(rides[t].departure_time, departure_time[1])}
      dist == [t \in found |->
                 calculate_distance(pickup, rides[t].start_location)]
  IN StableSort(SeqOfSet(found), dist)

\* lines 683-717: the rides that end near the dropoff, by departure_time
matching_rides(pickup, dropoff, radius_km, departure_time) ==
  LET nearby == search_query(pickup, radius_km, departure_time)
      close == SelectSeq(nearby, LAMBDA t :
                 calculate_distance(dropoff, rides[t].end_location) <= radius_km)
      departure == [t \in 1..Len(rides) |-> rides[t].departure_time]
  IN StableSort(close, departure)

search_rides(pickup, dropoff, radius_km, departure_time) ==
  /\ result' =
       [op |-> "search_rides", kind |-> "OK",
        query |-> [pickup |-> pickup, dropoff |-> dropoff,
                   radius_km |-> radius_km, departure_time |-> departure_time],
        rides |-> matching_rides(pickup, dropoff, radius_km, departure_time)]
  /\ UNCHANGED <<rides, requests, pool_requests, calls, notifications>>
  /\ UNCHANGED sim_vars

\* ---------------------------------------------------- create_ride_request
new_request(u, route, seats, matches) ==
  [rider_id |-> u, pickup_location |-> route[1], dropoff_location |-> route[2],
   requested_seats |-> seats,
   status |-> IF matches # <<>> THEN "matching" ELSE "pending",
   potential_matches |-> FirstK(matches, TopK),
   matched_ride_id |-> NoTrip, price |-> NoPrice,
   released |-> 0,    \* history: times cancel_ride_request gave its seats back
   before |-> <<>>]   \* history: the ride as the accept of the request found it

create_ride_request(u, route, seats) ==
  LET kind == IF seats = 0 THEN "InvalidInput" ELSE "OK" IN
  /\ requests' =
       IF kind = "OK"
       THEN Append(requests,
                   new_request(u, route, seats, match_rides(route[1], route[2])))
       ELSE requests
  /\ result' = Result("create_ride_request", kind)
  /\ UNCHANGED <<rides, pool_requests, calls>>
  /\ UNCHANGED notifications
  /\ UNCHANGED sim_vars

\* ------------------------------------------------------ accept_ride_match
\* accept_check_request without the check of the request's status
accept_check_request_any_status(u, q, reqs) ==
  IF q > Len(reqs) THEN "NotFound"
  ELSE IF u # reqs[q].rider_id THEN "Unauthorized"
  ELSE "OK"

\* lines 821-840: the checks on the request document
accept_check_request(u, q, reqs) ==
  IF q > Len(reqs) THEN "NotFound"
  ELSE IF u # reqs[q].rider_id THEN "Unauthorized"
  ELSE IF reqs[q].status \notin {"pending", "matching"} THEN "InvalidRequestState"
  ELSE "OK"

\* lines 844-862: the checks on the ride document
accept_check_ride(req, t, rs) ==
  IF t > Len(rs) THEN "NotFound"
  ELSE IF rs[t].status # "active" THEN "InvalidTripState"
  ELSE IF rs[t].available_seats < req.requested_seats THEN "InsufficientSeats"
  ELSE "OK"

accept_price(req, ride) ==
  LET pickup_distance == calculate_distance(req.pickup_location, ride.start_location)
      dropoff_distance == calculate_distance(req.dropoff_location, ride.end_location)
  IN calculate_price(pickup_distance + dropoff_distance,
                     EstimatedDuration(pickup_distance + dropoff_distance))

\* lines 880-888
set_request_matched(reqs, q, t, price) ==
  [reqs EXCEPT ![q].status = "matched",
               ![q].matched_ride_id = t,
               ![q].price = price]

rider_info(q, req, price) ==
  [rider_id |-> req.rider_id, seats |-> req.requested_seats, price |-> price,
   status |-> "confirmed", is_shared |-> FALSE,
   via |-> <<"request", q>>,    \* history: the document the entry was made for
   released |-> 0]              \* history: times a no_show gave its seats back

\* update_one with $inc available_seats and $push riders
push_rider(rs, t, entry, seats) ==
  IF t > Len(rs) THEN rs
  ELSE [rs EXCEPT ![t].available_seats = @ - seats,
                  ![t].riders = Append(@, entry)]

\* history only: available_seats and riders of the ride before the $inc and
\* $push of lines 901-908
note_before(reqs, q, ride) ==
  [reqs EXCEPT ![q].before = <<ride.available_seats, ride.riders>>]

accept_outcome(u, q, t) ==
  LET k1 == accept_check_request(u, q, requests) IN
  IF k1 # "OK" THEN k1 ELSE accept_check_ride(requests[q], t, rides)

\* accept_ride_match with the request written before the ride is checked
accept_ride_match_request_first(u, q, t) ==
  LET k1 == accept_check_request(u, q, requests)
      kind == accept_outcome(u, q, t) IN
  /\ kind = "OK" => Len(rides[t].riders) < MaxRiders
  /\ requests' = IF k1 = "OK" /\ t <= Len(rides)
                 THEN set_request_matched(requests, q, t,
                                          accept_price(requests[q], rides[t]))
                 ELSE requests
  /\ rides' = IF kind = "OK"
              THEN push_rider(rides, t,
                              rider_info(q, requests[q],
                                         accept_price(requests[q], rides[t])),
                              requests[q].requested_seats)
              ELSE rides
  /\ result' = Result("accept_ride_match", kind)
  /\ UNCHANGED <<pool_requests, calls>>
  /\ UNCHANGED notifications
  /\ UNCHANGED sim_vars

accept_ride_match(u, q, t) ==
  LET kind == accept_outcome(u, q, t) IN
  /\ kind = "OK" => Len(rides[t].riders) < MaxRiders
  /\ IF kind = "OK"
     THEN LET price == accept_price(requests[q], rides[t]) IN
          /\ requests' = note_before(set_request_matched(requests, q, t, price),
                                     q, rides[t])
          /\ rides' = push_rider(rides, t, rider_info(q, requests[q], price),
                                 requests[q].requested_seats)
     ELSE UNCHANGED <<requests, rides>>
  /\ result' = Result("accept_ride_match", kind)
  /\ UNCHANGED <<pool_requests, calls>>
  /\ UNCHANGED notifications
  /\ UNCHANGED sim_vars

\* ---------------------------------------------------- cancel_ride_request
\* lines 935-954
cancel_check_request(u, q, reqs) ==
  IF q > Len(reqs) THEN "NotFound"
  ELSE IF u # reqs[q].rider_id THEN "Unauthorized"
  ELSE IF reqs[q].status \in {"completed", "cancelled"} THEN "InvalidRequestState"
  ELSE "OK"

\* line 957
cancel_releases(req) == req.status = "matched" /\ req.matched_ride_id # NoTrip

\* lines 962-969: $inc available_seats, $pull every entry of the rider
release_seats(rs, t, rider_id, seats) ==
  IF t > Len(rs) THEN rs
  ELSE [rs EXCEPT ![t].available_seats = @ + seats,
                  ![t].riders = SelectSeq(@, LAMBDA r : r.rider_id # rider_id)]

\* lines 972-980
set_request_cancelled(reqs, q) == [reqs EXCEPT ![q].status = "cancelled"]

\* history only: one more release of the seats of request q
note_release(reqs, q) == [reqs EXCEPT ![q].released = Bump(@)]

cancel_ride_request(u, q) ==
  LET kind == cancel_check_request(u, q, requests) IN
  /\ IF kind = "OK"
     THEN /\ rides' = IF cancel_releases(requests[q])
                      THEN release_seats(rides, requests[q].matched_ride_id,
                                         u, requests[q].requested_seats)
                      ELSE rides
          /\ requests' =
               set_request_cancelled(
                 IF cancel_releases(requests[q]) THEN note_release(requests, q)
                 ELSE requests, q)
     ELSE UNCHANGED <<requests, rides>>
  /\ result' = Result("cancel_ride_request", kind)
  /\ UNCHANGED <<pool_requests, calls>>
  /\ UNCHANGED notifications
  /\ UNCHANGED sim_vars

\* ------------------------------------------------------------ update_ride
\* lines 516-535
update_ride_outcome(u, t) ==
  IF t > Len(rides) THEN "NotFound"
  ELSE IF u # rides[t].driver_id THEN "Unauthorized"
  ELSE IF rides[t].status \in {"completed", "cancelled"} THEN "InvalidTripState"
  ELSE "OK"

\* lines 548-560: every updatable field present in the body is $set as given;
\* new_status is NoChange and new_seats is <<>> when the body lacks the field
set_ride_fields(rs, t, new_status, new_seats) ==
  [rs EXCEPT ![t].status = IF new_status = NoChange THEN @ ELSE new_status,
             ![t].available_seats = IF new_seats = <<>> THEN @ ELSE new_seats[1],
             ![t].seats_edited = @ \/ new_seats # <<>>]

update_ride(u, t, new_status, new_seats) ==
  LET kind == update_ride_outcome(u, t) IN
  /\ rides' = IF kind = "OK"
              THEN set_ride_fields(rides, t, new_status, new_seats)
              ELSE rides
  /\ result' = Result("update_ride", kind)
  /\ UNCHANGED <<requests, pool_requests, calls>>
  /\ UNCHANGED notifications
  /\ UNCHANGED sim_vars

\* ------------------------------------------------------------ cancel_ride
\* lines 590-609
cancel_ride_outcome(u, t) ==
  IF t > Len(rides) THEN "NotFound"
  ELSE IF u # rides[t].driver_id THEN "Unauthorized"
  ELSE IF rides[t].status = "completed" THEN "InvalidTransition"
  ELSE "OK"

\* cancel_ride giving the seats back and dropping the rider entries
cancel_ride_releasing(u, t) ==
  LET kind == cancel_ride_outcome(u, t) IN
  /\ rides' = IF kind = "OK"
              THEN [rides EXCEPT ![t].status = "cancelled",
                                 ![t].available_seats = @ + SeatsHeld(rides[t]),
                                 ![t].riders = <<>>]
              ELSE rides
  /\ result' = Result("cancel_ride", kind)
  /\ UNCHANGED <<requests, pool_requests, calls>>
  /\ UNCHANGED notifications
  /\ UNCHANGED sim_vars

cancel_ride(u, t) ==
  LET kind == cancel_ride_outcome(u, t) IN
  /\ rides' = IF kind = "OK" THEN [rides EXCEPT ![t].status = "cancelled"]
              ELSE rides
  /\ result' = Result("cancel_ride", kind)
  /\ UNCHANGED <<requests, pool_requests, calls>>
  /\ UNCHANGED notifications
  /\ UNCHANGED sim_vars

\* ------------------------------------------- start_ride and complete_ride
\* Both functions assign to the name `request` in their loop over the riders
\* (lines 1182 and 1251), which makes `request` a local variable of the
\* whole function: their first statement, user = request.current_user,
\* raises UnboundLocalError outside the try block, and Flask answers 500.
start_ride(u, t) ==
  /\ result' = Result("start_ride", "ServerError")
  /\ UNCHANGED <<rides, requests, pool_requests, calls>>
  /\ UNCHANGED notifications
  /\ UNCHANGED sim_vars

complete_ride(u, t) ==
  /\ result' = Result("complete_ride", "ServerError")
  /\ UNCHANGED <<rides, requests, pool_requests, calls>>
  /\ UNCHANGED notifications
  /\ UNCHANGED sim_vars

\* ---------------------------------------------------- update_rider_status
\* lines 1285-1333
rider_status_outcome(u, t, rider_id, status) ==
  IF status \notin ValidRiderStatuses THEN "InvalidInput"
  ELSE IF t > Len(rides) THEN "NotFound"
  ELSE IF u # rides[t].driver_id THEN "Unauthorized"
  ELSE IF rides[t].status \notin {"active", "in_progress"} THEN "InvalidTripState"
  ELSE IF FirstIndex(rides[t].riders, rider_id) = 0 THEN "NotFound"
  ELSE "OK"

\* lines 1336-1346: riders.$ is the first entry matching riders.rider_id
set_rider_status(rs, t, rider_id, status) ==
  LET i == FirstIndex(rs[t].riders, rider_id) IN
  [rs EXCEPT ![t].riders[i].status = status]

\* lines 1349-1362: seats of the first entry of the rider, added back
no_show_seats(ride, rider_id, status) ==
  IF status = "no_show"
  THEN ride.riders[FirstIndex(ride.riders, rider_id)].seats
  ELSE 0

add_seats(rs, t, rider_id, seats) ==
  IF seats > 0
  THEN [rs EXCEPT ![t].available_seats = @ + seats,
                  ![t].riders[FirstIndex(rs[t].riders, rider_id)].released = Bump(@)]
  ELSE rs

update_rider_status(u, t, rider_id, status) ==
  LET kind == rider_status_outcome(u, t, rider_id, status) IN
  /\ IF kind = "OK"
     THEN LET seats == no_show_seats(rides[t], rider_id, status) IN
          /\ rides[t].available_seats + seats <= MaxAvail
          /\ rides' = add_seats(set_rider_status(rides, t, rider_id, status),
                                t, rider_id, seats)
     ELSE UNCHANGED rides
  /\ result' = Result("update_rider_status", kind)
  /\ UNCHANGED <<requests, pool_requests, calls>>
  /\ UNCHANGED notifications
  /\ UNCHANGED sim_vars

\* ----------------------------------------------- update_ride_shareability
\* lines 2626-2638: the ride is found only for its driver or one of its riders
shareability_outcome(u, t) ==
  IF t > Len(rides) THEN "NotFound"
  ELSE IF u # rides[t].driver_id /\ FirstIndex(rides[t].riders, u) = 0
       THEN "NotFound"
  ELSE "OK"

update_ride_shareability(u, t, is_shareable) ==
  LET kind == shareability_outcome(u, t) IN
  /\ rides' = IF kind = "OK" THEN [rides EXCEPT ![t].shareable = is_shareable]
              ELSE rides
  /\ result' = Result("update_ride_shareability", kind)
  /\ UNCHANGED <<requests, pool_requests, calls>>
  /\ UNCHANGED notifications
  /\ UNCHANGED sim_vars

\* ------------------------------------------------------- request_ride_pool
\* The module never defines notifications_collection: each
\* notifications_collection.insert_one raises NameError inside the try
\* block, after the writes that precede it, and the handler answers 400.
NotificationOutcome == "Exception"

\* request_pool_outcome without the check of the shareable flag
request_pool_outcome_unshared(t, needed_seats) ==
  IF t > Len(rides) THEN "NotFound"
  ELSE IF rides[t].available_seats < needed_seats THEN "InsufficientSeats"
  ELSE NotificationOutcome

\* lines 2020-2039
request_pool_outcome(t, needed_seats) ==
  IF t > Len(rides) THEN "NotFound"
  ELSE IF ~rides[t].shareable THEN "InvalidTripState"
  ELSE IF rides[t].available_seats < needed_seats THEN "InsufficientSeats"
  ELSE NotificationOutcome

\* lines 2044-2055
new_pool_request(u, t, ride, needed_seats) ==
  [ride_id |-> t, requester_id |-> u,
   primary_rider_id |-> IF ride.riders # <<>> THEN ride.riders[1].rider_id
                        ELSE Nobody,
   driver_id |-> ride.driver_id, needed_seats |-> needed_seats,
   status |-> "pending", rejection_reason |-> NoReason,
   primary_rejected |-> FALSE]  \* history: the primary rider has rejected it

request_ride_pool(u, t, needed_seats) ==
  LET kind == request_pool_outcome(t, needed_seats) IN
  /\ kind = NotificationOutcome => Len(pool_requests) < MaxPools
  /\ pool_requests' =
       IF kind = NotificationOutcome
       THEN Append(pool_requests, new_pool_request(u, t, rides[t], needed_seats))
       ELSE pool_requests
  /\ result' = Result("request_ride_pool", kind)
  /\ UNCHANGED <<rides, requests, calls>>
  /\ UNCHANGED notifications    \* insert_one is never reached: NameError
  /\ UNCHANGED sim_vars

\* ----------------------------------------------- primary_rider_pool_action
\* primary_action_outcome without the check of the pending status
primary_action_outcome_any_status(u, p, action) ==
  IF action \notin {"accept", "reject"} THEN "InvalidInput"
  ELSE IF p > Len(pool_requests) THEN "NotFound"
  ELSE IF pool_requests[p].primary_rider_id # u THEN "Unauthorized"
  ELSE NotificationOutcome

\* lines 2110-2139
primary_action_outcome(u, p, action) ==
  IF action \notin {"accept", "reject"} THEN "InvalidInput"
  ELSE IF p > Len(pool_requests) THEN "NotFound"
  ELSE IF pool_requests[p].primary_rider_id # u THEN "Unauthorized"
  ELSE IF pool_requests[p].status # "pending" THEN "AlreadyResolved"
  ELSE NotificationOutcome

\* primary_rider_pool_action with an accept that also unsets the request's
\* primary_rider_id
primary_rider_pool_action_unsetting(u, p, action) ==
  LET kind == primary_action_outcome(u, p, action) IN
  /\ pool_requests' =
       IF kind = NotificationOutcome
       THEN [pool_requests EXCEPT
               ![p].status = IF action = "accept" THEN "primary_rider_accepted"
                             ELSE "rejected_by_primary_rider",
               ![p].primary_rider_id = IF action = "accept" THEN Nobody ELSE @,
               ![p].primary_rejected = @ \/ action = "reject"]
       ELSE pool_requests
  /\ result' = Result("primary_rider_pool_action", kind)
  /\ UNCHANGED <<rides, requests, calls>>
  /\ UNCHANGED notifications
  /\ UNCHANGED sim_vars

primary_rider_pool_action(u, p, action) ==
  LET kind == primary_action_outcome(u, p, action) IN
  /\ pool_requests' =
       IF kind = NotificationOutcome
       THEN [pool_requests EXCEPT
               ![p].status = IF action = "accept" THEN "primary_rider_accepted"
                             ELSE "rejected_by_primary_rider",
               ![p].primary_rejected = @ \/ action = "reject"]
       ELSE pool_requests
  /\ result' = Result("primary_rider_pool_action", kind)
  /\ UNCHANGED <<rides, requests, calls>>
  /\ UNCHANGED notifications    \* insert_one is never reached: NameError
  /\ UNCHANGED sim_vars

\* ------------------------------------------------------ driver_pool_action
\* driver_action_outcome without the check of the request's driver_id
driver_action_outcome_any_driver(u, p, action) ==
  IF users[u].user_type # "driver" THEN "Unauthorized"
  ELSE IF action \notin {"accept", "reject"} THEN "InvalidInput"
  ELSE IF p > Len(pool_requests) THEN "NotFound"
  ELSE IF /\ pool_requests[p].primary_rider_id # Nobody
          /\ action = "accept"
          /\ pool_requests[p].status \notin {"pending", "primary_rider_accepted"}
       THEN "AlreadyResolved"
  ELSE NotificationOutcome

\* lines 2209-2250
driver_action_outcome(u, p, action) ==
  IF users[u].user_type # "driver" THEN "Unauthorized"
  ELSE IF action \notin {"accept", "reject"} THEN "InvalidInput"
  ELSE IF p > Len(pool_requests) THEN "NotFound"
  ELSE IF pool_requests[p].driver_id # u THEN "Unauthorized"
  ELSE IF /\ pool_requests[p].primary_rider_id # Nobody
          /\ action = "accept"
          /\ pool_requests[p].status \notin {"pending", "primary_rider_accepted"}
       THEN "AlreadyResolved"
  ELSE NotificationOutcome

\* lines 2267-2274: the entry has no status and no price field
new_rider(p, pool_request) ==
  [rider_id |-> pool_request.requester_id, seats |-> pool_request.needed_seats,
   price |-> NoPrice, status |-> NoStatus, is_shared |-> TRUE,
   via |-> <<"pool", p>>,       \* history: the document the entry was made for
   released |-> 0]              \* history: times a no_show gave its seats back

\* driver_pool_action without the check of the request's status
driver_pool_action_any_status(u, p, action, reason) ==
  LET kind == IF driver_action_outcome(u, p, action) = "AlreadyResolved"
              THEN NotificationOutcome
              ELSE driver_action_outcome(u, p, action) IN
  /\ IF kind = NotificationOutcome /\ action = "accept"
     THEN LET pr == pool_requests[p] IN
          /\ Len(rides[pr.ride_id].riders) < MaxRiders
          /\ pool_requests' = [pool_requests EXCEPT ![p].status = "accepted"]
          /\ rides' = push_rider(rides, pr.ride_id, new_rider(p, pr),
                                 pr.needed_seats)
     ELSE IF kind = NotificationOutcome
     THEN /\ pool_requests' =
               [pool_requests EXCEPT ![p].status = "rejected_by_driver",
                                     ![p].rejection_reason = reason]
          /\ UNCHANGED rides
     ELSE UNCHANGED <<pool_requests, rides>>
  /\ result' = Result("driver_pool_action", kind)
  /\ UNCHANGED <<requests, calls>>
  /\ UNCHANGED notifications
  /\ UNCHANGED sim_vars

driver_pool_action(u, p, action, reason) ==
  LET kind == driver_action_outcome(u, p, action) IN
  /\ IF kind = NotificationOutcome /\ action = "accept"
     THEN LET pr == pool_requests[p] IN
          /\ Len(rides[pr.ride_id].riders) < MaxRiders
          /\ pool_requests' = [pool_requests EXCEPT ![p].status = "accepted"]
          /\ rides' = push_rider(rides, pr.ride_id, new_rider(p, pr),
                                 pr.needed_seats)
     ELSE IF kind = NotificationOutcome
     THEN /\ pool_requests' =
               [pool_requests EXCEPT ![p].status = "rejected_by_driver",
                                     ![p].rejection_reason = reason]
          /\ UNCHANGED rides
     ELSE UNCHANGED <<pool_requests, rides>>
  /\ result' = Result("driver_pool_action", kind)
  /\ UNCHANGED <<requests, calls>>
  /\ UNCHANGED notifications    \* insert_one is never reached: NameError
  /\ UNCHANGED sim_vars

\* ------------------------------------------------------------------- Spec
\* The trip and request lifecycle, every handler run to completion.
Next ==
  \/ \E u \in UserIds, route \in RideRoutes, departure_time \in Departures,
        seats \in CreateSeats :
       create_ride(u, route, departure_time, seats)
  \/ \E u \in Requesters, route \in RequestRoutes, seats \in RequestSeats :
       /\ Len(requests) < MaxRequests
       /\ create_ride_request(u, route, seats)
  \/ \E u \in Requesters, q \in 1..MaxRequests, t \in 1..MaxTrips :
       accept_ride_match(u, q, t)
  \/ \E u \in Requesters, q \in 1..MaxRequests : cancel_ride_request(u, q)
  \/ \E u \in Drivers, t \in 1..MaxTrips, body \in UpdateBodies :
       update_ride(u, t, body[1], body[2])
  \/ \E u \in Drivers, t \in 1..MaxTrips : cancel_ride(u, t)
  \/ \E u \in Drivers, t \in 1..MaxTrips : start_ride(u, t)
  \/ \E u \in Drivers, t \in 1..MaxTrips : complete_ride(u, t)
  \/ \E u \in Drivers, t \in 1..MaxTrips, rider_id \in Requesters,
        status \in RiderStatusInputs :
       update_rider_status(u, t, rider_id, status)

Spec == Init /\ [][Next]_vars

\* --------------------------------------------------------------- SpecPool
\* The pooling negotiation on top of a trip and its primary rider.
NextPool ==
  \/ \E u \in Drivers, route \in RideRoutes, departure_time \in Departures,
        seats \in 1..MaxSeats :
       create_ride(u, route, departure_time, seats)
  \/ \E u \in Requesters, route \in RequestRoutes, seats \in 1..MaxSeats :
       /\ Len(requests) < MaxRequests
       /\ create_ride_request(u, route, seats)
  \/ \E u \in Requesters, q \in 1..MaxRequests, t \in 1..MaxTrips :
       accept_ride_match(u, q, t)
  \/ \E u \in Drivers, t \in 1..MaxTrips : cancel_ride(u, t)
  \/ \E u \in UserIds, t \in 1..MaxTrips, is_shareable \in BOOLEAN :
       update_ride_shareability(u, t, is_shareable)
  \/ \E u \in Requesters, t \in 1..MaxTrips, needed_seats \in 0..MaxSeats :
       request_ride_pool(u, t, needed_seats)
  \/ \E u \in UserIds, p \in 1..MaxPools, action \in PoolActions :
       primary_rider_pool_action(u, p, action)
  \/ \E u \in UserIds, p \in 1..MaxPools, action \in PoolActions,
        reason \in Reasons :
       driver_pool_action(u, p, action, reason)

SpecPool == Init /\ [][NextPool]_vars

\* --------------------------------------------------------------- SpecConc
\* accept_ride_match and cancel_ride_request as the database calls they
\* make, one call per step; a handler in flight keeps what it has read.
FreeSlot(c) ==
  /\ calls[c] = Idle
  /\ \A d \in 1..(c - 1) : calls[d] # Idle

Finish(c, op, kind) ==
  /\ calls' = [calls EXCEPT ![c] = Idle]
  /\ result' = Result(op, kind)

\* lines 821-840
accept_find_request(c, u, q, t) ==
  LET kind == accept_check_request(u, q, requests) IN
  /\ FreeSlot(c)
  /\ IF kind = "OK"
     THEN /\ calls' = [calls EXCEPT ![c] =
                 [op |-> "accept_ride_match", pc |-> "find_ride", user |-> u,
                  q |-> q, t |-> t, ride_request |-> requests[q],
                  price |-> NoPrice]]
          /\ UNCHANGED result
     ELSE Finish(c, "accept_ride_match", kind)
  /\ UNCHANGED <<rides, requests, pool_requests>>
  /\ UNCHANGED notifications
  /\ UNCHANGED sim_vars

\* lines 844-877
accept_find_ride(c) ==
  LET call == calls[c]
      kind == accept_check_ride(call.ride_request, call.t, rides) IN
  /\ call.op = "accept_ride_match" /\ call.pc = "find_ride"
  /\ IF kind = "OK"
     THEN /\ calls' = [calls EXCEPT
                 ![c].pc = "update_request",
                 ![c].price = accept_price(call.ride_request, rides[call.t])]
          /\ UNCHANGED result
     ELSE Finish(c, "accept_ride_match", kind)
  /\ UNCHANGED <<rides, requests, pool_requests>>
  /\ UNCHANGED notifications
  /\ UNCHANGED sim_vars

\* lines 880-888
accept_update_request(c) ==
  LET call == calls[c] IN
  /\ call.op = "accept_ride_match" /\ call.pc = "update_request"
  /\ requests' = set_request_matched(requests, call.q, call.t, call.price)
  /\ calls' = [calls EXCEPT ![c].pc = "update_ride"]
  /\ UNCHANGED <<rides, pool_requests, result>>
  /\ UNCHANGED notifications
  /\ UNCHANGED sim_vars

\* lines 891-919
accept_update_ride(c) ==
  LET call == calls[c] IN
  /\ call.op = "accept_ride_match" /\ call.pc = "update_ride"
  /\ Len(rides[call.t].riders) < MaxRiders
  /\ rides' = push_rider(rides, call.t,
                         rider_info(call.q, call.ride_request, call.price),
                         call.ride_request.requested_seats)
  /\ requests' = note_before(requests, call.q, rides[call.t])
  /\ Finish(c, "accept_ride_match", "OK")
  /\ UNCHANGED pool_requests
  /\ UNCHANGED notifications
  /\ UNCHANGED sim_vars

\* lines 935-957
cancel_find_request(c, u, q) ==
  LET kind == cancel_check_request(u, q, requests) IN
  /\ FreeSlot(c)
  /\ IF kind = "OK"
     THEN /\ calls' = [calls EXCEPT ![c] =
                 [op |-> "cancel_ride_request",
                  pc |-> IF cancel_releases(requests[q]) THEN "release"
                         ELSE "update_request",
                  user |-> u, q |-> q, t |-> requests[q].matched_ride_id,
                  ride_request |-> requests[q], price |-> NoPrice]]
          /\ UNCHANGED result
     ELSE Finish(c, "cancel_ride_request", kind)
  /\ UNCHANGED <<rides, requests, pool_requests>>
  /\ UNCHANGED notifications
  /\ UNCHANGED sim_vars

\* lines 958-969
cancel_release(c) ==
  LET call == calls[c] IN
  /\ call.op = "cancel_ride_request" /\ call.pc = "release"
  /\ rides' = release_seats(rides, call.ride_request.matched_ride_id,
                            call.user, call.ride_request.requested_seats)
  /\ requests' = note_release(requests, call.q)
  /\ calls' = [calls EXCEPT ![c].pc = "update_request"]
  /\ UNCHANGED <<pool_requests, result>>
  /\ UNCHANGED notifications
  /\ UNCHANGED sim_vars

\* lines 972-985
cancel_update_request(c) ==
  LET call == calls[c] IN
  /\ call.op = "cancel_ride_request" /\ call.pc = "update_request"
  /\ requests' = set_request_cancelled(requests, call.q)
  /\ Finish(c, "cancel_ride_request", "OK")
  /\ UNCHANGED <<rides, pool_requests>>
  /\ UNCHANGED notifications
  /\ UNCHANGED sim_vars

NextConc ==
  \/ \E route \in RideRoutes, departure_time \in Departures,
        seats \in 1..MaxSeats :
       create_ride("d1", route, departure_time, seats)
  \/ \E u \in Requesters, route \in RequestRoutes, seats \in 1..MaxSeats :
       /\ Len(requests) < MaxConcRequests
       /\ requests = <<>> => u = "r1"     \* the two riders are interchangeable
       /\ create_ride_request(u, route, seats)
  \/ \E c \in 1..MaxCalls, u \in Requesters, q \in 1..Len(requests),
        t \in 1..Len(rides) :
       accept_find_request(c, u, q, t)
  \/ \E c \in 1..MaxCalls : accept_find_ride(c)
  \/ \E c \in 1..MaxCalls : accept_update_request(c)
  \/ \E c \in 1..MaxCalls : accept_update_ride(c)
  \/ \E c \in 1..MaxCalls, u \in Requesters, q \in 1..Len(requests) :
       cancel_find_request(c, u, q)
  \/ \E c \in 1..MaxCalls : cancel_release(c)
  \/ \E c \in 1..MaxCalls : cancel_update_request(c)

SpecConc == Init /\ [][NextConc]_vars

\* --------------------------------------------------------------- SpecBook
\* Two requests booking seats on a trip, every handler run to completion.
NextBook ==
  \/ \E route \in RideRoutes, departure_time \in Departures,
        seats \in 1..MaxSeats :
       create_ride("d1", route, departure_time, seats)
  \/ \E u \in Requesters, route \in RequestRoutes, seats \in 1..MaxSeats :
       /\ Len(requests) < MaxConcRequests
       /\ create_ride_request(u, route, seats)
  \/ \E u \in Requesters, q \in 1..MaxConcRequests, t \in 1..MaxTrips :
       accept_ride_match(u, q, t)
  \/ \E u \in Requesters, q \in 1..MaxConcRequests : cancel_ride_request(u, q)

SpecBook == Init /\ [][NextBook]_vars

\* --------------------------------------------------------------- SpecMatch
\* The matcher on a collection of MatchTrips rides: with a request picked up
\* at 1 and dropped off at 9, the routes are at pickup and dropoff distances
\* (1, 1), (3, 1), (6, 1), (1, 6) and (1, 4).
MatchRoutes == {<<0, 10>>, <<4, 10>>, <<7, 10>>, <<0, 15>>, <<2, 13>>}

\* ride documents as create_ride stores them, one of them cancelled since
MatchRides ==
  {new_ride("d1", route, Noon, 1) : route \in MatchRoutes}
    \cup {[new_ride("d1", <<0, 10>>, Noon, 1) EXCEPT !.status = "cancelled"]}

InitMatch ==
  /\ rides \in [1..MatchTrips -> MatchRides]
  /\ requests = <<>>
  /\ pool_requests = <<>>
  /\ calls = [c \in 1..MaxCalls |-> Idle]
  /\ result = Result("none", "none")
  /\ notifications = 0
  /\ SimInit

NextMatch ==
  \E route \in RequestRoutes :
    /\ Len(requests) < MaxRequests
    /\ create_ride_request("r1", route, 1)

SpecMatch == InitMatch /\ [][NextMatch]_vars

\* -------------------------------------------------------------- SpecSearch
\* The search and the matcher on a collection of SearchTrips rides: with a
\* pickup at 1 and a dropoff at 9 the routes are at pickup and dropoff
\* distances (1, 1), (3, 1), (1, 4) and (6, 1); with a search for Noon the
\* departures are outside, at the two ends of, and outside the window.
SearchRoutes == {<<0, 10>>, <<4, 10>>, <<2, 13>>, <<7, 10>>}
SearchDepartures ==
  {Noon - TimeWindowHours - 1, Noon - TimeWindowHours,
   Noon + TimeWindowHours, Noon + TimeWindowHours + 1}
SearchRadii == {2, RIDE_MATCHING_RADIUS_KM}
SearchTimes == {<<>>, <<Noon>>}

\* ride documents as create_ride stores them, some with their one seat set
\* to 0 by update_ride since, one cancelled since
SearchRides ==
  LET fresh == {new_ride("d1", route, departure_time, 1) :
                  route \in SearchRoutes, departure_time \in SearchDepartures}
  IN fresh
       \cup {[r EXCEPT !.available_seats = 0, !.seats_edited = TRUE] :
               r \in fresh}
       \cup {[new_ride("d1", <<0, 10>>, Noon, 1) EXCEPT !.status = "cancelled"]}

InitSearch ==
  /\ rides \in [1..SearchTrips -> SearchRides]
  /\ requests = <<>>
  /\ pool_requests = <<>>
  /\ calls = [c \in 1..MaxCalls |-> Idle]
  /\ result = Result("none", "none")
  /\ notifications = 0
  /\ SimInit

NextSearch ==
  \/ \E route \in RequestRoutes, radius_km \in SearchRadii,
        departure_time \in SearchTimes :
       search_rides(route[1], route[2], radius_km, departure_time)
  \/ \E route \in RequestRoutes :
       /\ Len(requests) < MaxRequests
       /\ create_ride_request("r1", route, 1)

SpecSearch == InitSearch /\ [][NextSearch]_vars

\* ----------------------------------------------------------------- SpecGeo
\* calculate_distance applied to pairs of points of a grid of longitudes
\* and latitudes on both sides of the equator and of the prime meridian.
GeoLngs == {-90, 0, 90, 180}
GeoLats == {-60, 0, 30, 60}
GeoPoints == GeoLngs \X GeoLats

measure_distance(point1, point2) ==
  /\ result' = [op |-> "calculate_distance", kind |-> "OK",
                point1 |-> point1, point2 |-> point2,
                distance |-> haversine(point1, point2)]
  /\ UNCHANGED <<rides, requests, pool_requests, calls, notifications>>
  /\ UNCHANGED sim_vars

NextGeo == \E point1, point2 \in GeoPoints : measure_distance(point1, point2)

SpecGeo == Init /\ [][NextGeo]_vars

\* ------------------------------------------------------ src/app1.py: SpecSim
\* The in-memory matching simulation.  drivers and riders are functions on
\* the ids registered so far, active_rides is the sequence of the entries
\* "ride_1", "ride_2", ..., demand_grid is kept for the cells of
\* SimLocations.  Its handlers carry the prefix sim_.
SimDriverIds == {"d1", "d2"}
SimRiderIds == {"r1", "r2"}
BasePoints == 10
HotspotBonus == 25
SharePoints == 15
LevelPoints == 100

\* np.percentile(demand_grid, 80): 0 while fewer than 20 of the 100 cells
\* have demand, as is the case with the cells of SimLocations
demand_percentile_80 == 0

\* the value update_traffic_hotspots has stored for the cell; it is called
\* by every request_ride, the only writer of demand_grid
traffic_hotspots(cell) == demand_grid[cell] > demand_percentile_80

sim_register_driver(driver_id, location) ==
  /\ drivers' = (driver_id :> [location |-> location, status |-> "available",
                               points |-> 0, level |-> 1]) @@ drivers
  /\ result' = Result("sim_register_driver", "OK")
  /\ UNCHANGED <<riders, active_rides, demand_grid>>
  /\ UNCHANGED <<rides, requests, pool_requests, calls, notifications>>

sim_update_driver_location(driver_id, location) ==
  /\ drivers' = IF driver_id \in DOMAIN drivers
                THEN [drivers EXCEPT ![driver_id].location = location]
                ELSE drivers
  /\ result' = Result("sim_update_driver_location",
                      IF driver_id \in DOMAIN drivers THEN "OK"
                      ELSE "NotFound")
  /\ UNCHANGED <<riders, active_rides, demand_grid>>
  /\ UNCHANGED <<rides, requests, pool_requests, calls, notifications>>

sim_request_ride(rider_id, pickup, destination) ==
  /\ riders' = (rider_id :> [pickup |-> pickup, destination |-> destination,
                             status |-> "waiting", matched_riders |-> <<>>,
                             driver_id |-> Nobody]) @@ riders
  /\ demand_grid' = [demand_grid EXCEPT ![grid_cell(pickup)] = @ + 1]
  /\ result' = Result("sim_request_ride", "OK")
  /\ UNCHANGED <<drivers, active_rides>>
  /\ UNCHANGED <<rides, requests, pool_requests, calls, notifications>>

sim_accept_share(rider_id, share_with) ==
  LET found == rider_id \in DOMAIN riders /\ share_with \in DOMAIN riders
      linked == [riders EXCEPT
                   ![rider_id].matched_riders = Append(@, share_with)]
  IN
  /\ riders' = IF found
               THEN [linked EXCEPT
                       ![share_with].matched_riders = Append(@, rider_id)]
               ELSE riders
  /\ result' = Result("sim_accept_share", IF found THEN "OK" ELSE "NotFound")
  /\ UNCHANGED <<drivers, active_rides, demand_grid>>
  /\ UNCHANGED <<rides, requests, pool_requests, calls, notifications>>

\* lines 136-142: the rider and the riders matched with it get the driver
set_driver_id(rs, driver_id, rider_id) ==
  LET matched_riders == rs[rider_id].matched_riders
      shared == {matched_riders[i] : i \in 1..Len(matched_riders)}
  IN [r \in DOMAIN rs |->
        IF r = rider_id \/ r \in shared
        THEN [rs[r] EXCEPT !.driver_id = driver_id]
        ELSE rs[r]]

\* lines 146-151
ride_info(driver_id, rider_id, rs) ==
  [driver_id |-> driver_id,
   riders |-> <<rider_id>> \o rs[rider_id].matched_riders,
   status |-> "in_progress"]

\* active_rides[ride_id] = ...: a new key is added, an existing key is
\* overwritten
store_ride(ar, ride_id, entry) ==
  IF ride_id <= Len(ar) THEN [ar EXCEPT ![ride_id] = entry]
  ELSE Append(ar, entry)

sim_accept_ride(driver_id, rider_id) ==
  LET found == driver_id \in DOMAIN drivers /\ rider_id \in DOMAIN riders
      ride_id == Len(active_rides) + 1
  IN
  /\ IF found
     THEN /\ drivers' = [drivers EXCEPT ![driver_id].status = "busy"]
          /\ riders' = set_driver_id(riders, driver_id, rider_id)
          /\ active_rides' =
               store_ride(active_rides, ride_id,
                          ride_info(driver_id, rider_id, riders'))
     ELSE UNCHANGED <<drivers, riders, active_rides>>
  /\ result' = Result("sim_accept_ride", IF found THEN "OK" ELSE "NotFound")
  /\ UNCHANGED demand_grid
  /\ UNCHANGED <<rides, requests, pool_requests, calls, notifications>>

\* lines 177-191
points_earned(ride) ==
  LET pickup_loc == riders[ride.riders[1]].pickup IN
  BasePoints
    + (IF traffic_hotspots(grid_cell(pickup_loc)) THEN HotspotBonus ELSE 0)
    + (IF Len(ride.riders) > 1 THEN SharePoints * (Len(ride.riders) - 1)
       ELSE 0)

\* lines 190-199
award(driver, points) ==
  [driver EXCEPT
     !.status = "available",
     !.points = @ + points,
     !.level = IF driver.points + points >= driver.level * LevelPoints
               THEN @ + 1 ELSE @]

sim_complete_ride(ride_id) ==
  LET found == ride_id <= Len(active_rides)
      ride == active_rides[ride_id]
      driver_id == ride.driver_id
      ride_riders == {ride.riders[i] : i \in 1..Len(ride.riders)}
  IN
  /\ IF found
     THEN /\ active_rides' = [active_rides EXCEPT ![ride_id].status = "completed"]
          /\ IF driver_id \in DOMAIN drivers
             THEN /\ drivers' = [drivers EXCEPT
                                   ![driver_id] = award(@, points_earned(ride))]
                  /\ riders' = [r \in DOMAIN riders |->
                                  IF r \in ride_riders
                                  THEN [riders[r] EXCEPT !.status = "completed"]
                                  ELSE riders[r]]
                  /\ result' = Result("sim_complete_ride", "OK")
             ELSE /\ UNCHANGED <<drivers, riders>>
                  /\ result' = Result("sim_complete_ride", "NotFound")
     ELSE /\ UNCHANGED <<drivers, riders, active_rides>>
          /\ result' = Result("sim_complete_ride", "NotFound")
  /\ UNCHANGED demand_grid
  /\ UNCHANGED <<rides, requests, pool_requests, calls, notifications>>

NextSim ==
  \/ \E driver_id \in SimDriverIds, location \in SimLocations :
       sim_register_driver(driver_id, location)
  \/ \E driver_id \in SimDriverIds, location \in SimLocations :
       sim_update_driver_location(driver_id, location)
  \/ \E rider_id \in SimRiderIds, pickup \in SimLocations,
        destination \in SimLocations :
       /\ demand_grid[grid_cell(pickup)] < MaxSimRequests
       /\ sim_request_ride(rider_id, pickup, destination)
  \/ \E rider_id \in SimRiderIds, share_with \in SimRiderIds :
       /\ \A r \in {rider_id, share_with} \cap DOMAIN riders :
            Len(riders[r].matched_riders) < MaxShares
       /\ rider_id # share_with \/ MaxShares > 1
       /\ sim_accept_share(rider_id, share_with)
  \/ \E driver_id \in SimDriverIds, rider_id \in SimRiderIds :
       /\ Len(active_rides) < MaxSimRides
       /\ sim_accept_ride(driver_id, rider_id)
  \/ \E ride_id \in 1..MaxSimRides :
       /\ ride_id <= Len(active_rides)
            => \A d \in {active_rides[ride_id].driver_id} \cap DOMAIN drivers :
                 drivers[d].points < MaxPoints
       /\ sim_complete_ride(ride_id)

SpecSim == Init /\ [][NextSim]_vars

\* -------------------------------------------------------------- SpecSimConc
\* accept_ride in two steps, as two requests served by two threads can
\* interleave: up to the computation of ride_id (lines 134-145), and the
\* assignment to active_rides[ride_id] (lines 146-151).
sim_accept_ride_begin(c, driver_id, rider_id) ==
  LET found == driver_id \in DOMAIN drivers /\ rider_id \in DOMAIN riders IN
  /\ FreeSlot(c)
  /\ IF found
     THEN /\ drivers' = [drivers EXCEPT ![driver_id].status = "busy"]
          /\ riders' = set_driver_id(riders, driver_id, rider_id)
          /\ calls' = [calls EXCEPT ![c] =
                 [op |-> "sim_accept_ride", pc |-> "store",
                  driver_id |-> driver_id, rider_id |-> rider_id,
                  ride_id |-> Len(active_rides) + 1]]
          /\ UNCHANGED result
     ELSE /\ UNCHANGED <<drivers, riders>>
          /\ Finish(c, "sim_accept_ride", "NotFound")
  /\ UNCHANGED <<active_rides, demand_grid>>
  /\ UNCHANGED <<rides, requests, pool_requests, notifications>>

sim_accept_ride_store(c) ==
  LET call == calls[c] IN
  /\ call.op = "sim_accept_ride" /\ call.pc = "store"
  /\ active_rides' =
       store_ride(active_rides, call.ride_id,
                  ride_info(call.driver_id, call.rider_id, riders))
  /\ Finish(c, "sim_accept_ride", "OK")
  /\ UNCHANGED <<drivers, riders, demand_grid>>
  /\ UNCHANGED <<rides, requests, pool_requests, notifications>>

NextSimConc ==
  \/ \E driver_id \in SimDriverIds, location \in SimLocations :
       sim_register_driver(driver_id, location)
  \/ \E rider_id \in SimRiderIds, pickup \in SimLocations,
        destination \in SimLocations :
       /\ demand_grid[grid_cell(pickup)] < MaxSimRequests
       /\ sim_request_ride(rider_id, pickup, destination)
  \/ \E c \in 1..MaxCalls, driver_id \in SimDriverIds,
        rider_id \in SimRiderIds :
       /\ Len(active_rides) < MaxSimRides
       /\ sim_accept_ride_begin(c, driver_id, rider_id)
  \/ \E c \in 1..MaxCalls : sim_accept_ride_store(c)

SpecSimConc == Init /\ [][NextSimConc]_vars

\* ================================================================ claims
RECURSIVE SumRequested(_)
SumRequested(Q) ==
  IF Q = {} THEN 0
  ELSE LET q == CHOOSE x \in Q : TRUE
       IN requests[q].requested_seats + SumRequested(Q \ {q})

\* the requests for which ride t holds a rider entry
Holders(t) ==
  {q \in 1..Len(requests) :
     \E i \in 1..Len(rides[t].riders) : rides[t].riders[i].via = <<"request", q>>}

AllowedTripEdges ==
  {<<"active", "in_progress">>, <<"in_progress", "completed">>,
   <<"active", "cancelled">>, <<"in_progress", "cancelled">>}

\* C1: on every trip whose available_seats no trip update has overwritten,
\* available_seats plus the seats of the assignments that are neither
\* cancelled nor no_show equals the available_seats the trip was created with.
C1_SeatConservation ==
  \A t \in 1..Len(rides) :
    ~rides[t].seats_edited =>
      rides[t].available_seats + SeatsHeld(rides[t]) = rides[t].capacity

\* C2: available_seats of a trip is never negative.
C2_NonNegativeSeats ==
  \A t \in 1..Len(rides) : rides[t].available_seats >= 0

\* C3: the requests that hold a seat on a trip ask together for no more
\* seats than the trip had, whatever the interleaving of their accepts.
C3_NoOverbooking ==
  \A t \in 1..Len(rides) : SumRequested(Holders(t)) <= rides[t].capacity

\* C4: a pool request with a primary rider becomes accepted only from
\* primary_rider_accepted.
C4_PoolGateOrdering ==
  [][\A p \in 1..Len(pool_requests) :
       (/\ pool_requests[p].primary_rider_id # Nobody
        /\ pool_requests[p].status # "accepted"
        /\ pool_requests'[p].status = "accepted")
       => pool_requests[p].status = "primary_rider_accepted"]_vars

\* C5: a pool request in a terminal status keeps that status for ever.
C5_PoolTerminalIsFinal ==
  [][\A p \in 1..Len(pool_requests) :
       pool_requests[p].status \in PoolTerminal
       => pool_requests'[p].status = pool_requests[p].status]_vars

\* C6: a pool request becomes accepted only while its trip has at least
\* needed_seats available seats.
C6_PoolAcceptNeedsSeats ==
  [][\A p \in 1..Len(pool_requests) :
       (/\ pool_requests[p].status # "accepted"
        /\ pool_requests'[p].status = "accepted")
       => rides[pool_requests[p].ride_id].available_seats
            >= pool_requests[p].needed_seats]_vars

\* C7: the seats of a request are given back to its trip at most once.
C7_ReleaseOnce ==
  \A q \in 1..Len(requests) : requests[q].released <= 1

\* C8: a no_show gives the seats of an assignment back at most once.
C8_NoShowReleasesOnce ==
  \A t \in 1..Len(rides) :
    \A i \in 1..Len(rides[t].riders) : rides[t].riders[i].released <= 1

\* C9: the status of a trip changes only along active -> in_progress,
\* in_progress -> completed and active or in_progress -> cancelled.
C9_TripStatusEdges ==
  [][\A t \in 1..Len(rides) :
       rides'[t].status # rides[t].status
       => <<rides[t].status, rides'[t].status>> \in AllowedTripEdges]_vars

\* C10: an accept_ride_match answered InsufficientSeats or InvalidTripState
\* has changed neither a ride request nor a ride.
C10_RejectedAcceptChangesNothing ==
  [][(/\ result'.op = "accept_ride_match"
      /\ result'.kind \in {"InsufficientSeats", "InvalidTripState"})
     => (requests' = requests /\ rides' = rides)]_vars

\* C10 witness: an accept was refused for lack of seats and the request is
\* as it was created.
C10_Witness ==
  /\ result = Result("accept_ride_match", "InsufficientSeats")
  /\ \E q \in 1..Len(requests) :
       /\ requests[q].status \in {"pending", "matching"}
       /\ requests[q].matched_ride_id = NoTrip
       /\ requests[q].price = NoPrice
       /\ \E t \in 1..Len(rides) :
            /\ rides[t].status = "active"
            /\ rides[t].available_seats < requests[q].requested_seats

\* the ride a request is matched to holds an entry of its rider for its seats
HoldsSeat(q) ==
  LET t == requests[q].matched_ride_id IN
  /\ t \in 1..Len(rides)
  /\ \E i \in 1..Len(rides[t].riders) :
       /\ rides[t].riders[i].rider_id = requests[q].rider_id
       /\ rides[t].riders[i].seats = requests[q].requested_seats

\* the requests whose status is matched and whose matched_ride_id is t
MatchedTo(t) ==
  {q \in 1..Len(requests) :
     requests[q].status = "matched" /\ requests[q].matched_ride_id = t}

\* C11: every request whose status is matched refers to a ride that holds
\* an entry of the request's rider with the request's seats, in every state,
\* the states between the database calls of a handler included.
C11_NoOrphanedMatched ==
  \A q \in 1..Len(requests) : requests[q].status = "matched" => HoldsSeat(q)

\* C12: a step that takes a trip to in_progress takes every request matched
\* to it to in_progress, and a step that takes it to completed takes every
\* such request to completed.
C12_LockstepAdvance ==
  [][\A t \in 1..Len(rides) :
       (/\ rides'[t].status \in {"in_progress", "completed"}
        /\ rides'[t].status # rides[t].status)
       => \A q \in MatchedTo(t) : requests'[q].status = rides'[t].status]_vars

\* C13: a request whose status is completed or cancelled keeps that status
\* for ever, also when an accept and a cancel of it are in flight together.
C13_RequestTerminalIsFinal ==
  [][\A q \in 1..Len(requests) :
       requests[q].status \in {"completed", "cancelled"}
       => requests'[q].status = requests[q].status]_vars

\* the request whose accept made the last rider entry of ride t, 0 if none
LastAccepted(t) ==
  LET rs == rides[t].riders IN
  IF rs # <<>> /\ rs[Len(rs)].via[1] = "request" THEN rs[Len(rs)].via[2] ELSE 0

\* C14: when the accept of a request is followed at once by the cancel of
\* that request, the trip has the available_seats and the rider entries it
\* had before the accept.
C14_AcceptCancelRoundTrip ==
  [][\A q \in 1..Len(requests) :
       LET t == requests[q].matched_ride_id IN
       (/\ result = Result("accept_ride_match", "OK")
        /\ result' = Result("cancel_ride_request", "OK")
        /\ requests[q].status = "matched"
        /\ requests'[q].status = "cancelled"
        /\ LastAccepted(t) = q)
       => /\ rides'[t].available_seats = requests[q].before[1]
          /\ rides'[t].riders = requests[q].before[2]]_vars

\* C15: an accept_ride_match by the owner of a pending or matching request,
\* on an active ride with enough available seats, sets the request to
\* matched with that ride, takes exactly the requested seats off
\* available_seats and appends exactly one confirmed entry of the rider; an
\* accept_ride_match on a request in any other status is refused and
\* changes nothing.
C15_AcceptFunctional ==
  [][\A u \in Requesters, q \in 1..Len(requests), t \in 1..Len(rides) :
       accept_ride_match(u, q, t) =>
         LET req == requests[q]
             ride == rides[t]
             n == Len(ride.riders) IN
         /\ (/\ u = req.rider_id
             /\ req.status \in {"pending", "matching"}
             /\ ride.status = "active"
             /\ ride.available_seats >= req.requested_seats)
            => /\ result'.kind = "OK"
               /\ requests'[q].status = "matched"
               /\ requests'[q].matched_ride_id = t
               /\ rides'[t].available_seats
                    = ride.available_seats - req.requested_seats
               /\ Len(rides'[t].riders) = n + 1
               /\ SubSeq(rides'[t].riders, 1, n) = ride.riders
               /\ rides'[t].riders[n + 1].rider_id = u
               /\ rides'[t].riders[n + 1].seats = req.requested_seats
               /\ rides'[t].riders[n + 1].status = "confirmed"
         /\ req.status \notin {"pending", "matching"}
            => /\ result'.kind # "OK"
               /\ requests' = requests
               /\ rides' = rides]_vars

\* C15 witness: an accept has just matched a request and the ride holds the
\* confirmed entry of its rider.
C15_Witness ==
  /\ result = Result("accept_ride_match", "OK")
  /\ \E q \in 1..Len(requests) :
       /\ requests[q].status = "matched"
       /\ requests[q].matched_ride_id \in 1..Len(rides)
       /\ \E i \in 1..Len(rides[requests[q].matched_ride_id].riders) :
            LET e == rides[requests[q].matched_ride_id].riders[i] IN
            /\ e.rider_id = requests[q].rider_id
            /\ e.status = "confirmed"
            /\ e.seats = requests[q].requested_seats

\* C16: a pool request is created only for a shareable ride with at least
\* needed_seats available seats; it is created pending, with the rider of the
\* ride's first entry as primary rider, and with none when the ride has no
\* entry.
C16_PoolCreation ==
  [][Len(pool_requests') > Len(pool_requests) =>
       LET pr == pool_requests'[Len(pool_requests')]
           ride == rides[pr.ride_id] IN
       /\ Len(pool_requests') = Len(pool_requests) + 1
       /\ ride.shareable
       /\ ride.available_seats >= pr.needed_seats
       /\ pr.status = "pending"
       /\ pr.primary_rider_id =
            IF ride.riders # <<>> THEN ride.riders[1].rider_id ELSE Nobody]_vars

\* C16 witness: a pending pool request whose primary rider is the rider of
\* the first entry of its ride.
C16_Witness ==
  /\ result.op = "request_ride_pool"
  /\ \E p \in 1..Len(pool_requests) :
       /\ pool_requests[p].status = "pending"
       /\ pool_requests[p].primary_rider_id # Nobody
       /\ rides[pool_requests[p].ride_id].riders # <<>>
       /\ pool_requests[p].primary_rider_id
            = rides[pool_requests[p].ride_id].riders[1].rider_id

\* C17: a primary-rider action changes no ride; on a pending pool request
\* the primary rider's accept sets primary_rider_accepted and their reject
\* sets rejected_by_primary_rider; in any other status the action is
\* refused and the pool request is left as it was.
C17_PrimaryRiderGate ==
  [][\A u \in UserIds, p \in 1..Len(pool_requests), action \in PoolActions :
       primary_rider_pool_action(u, p, action) =>
         LET pr == pool_requests[p] IN
         /\ rides' = rides
         /\ (pr.status = "pending" /\ u = pr.primary_rider_id)
            => /\ action = "accept"
                  => pool_requests'[p].status = "primary_rider_accepted"
               /\ action = "reject"
                  => pool_requests'[p].status = "rejected_by_primary_rider"
         /\ pr.status # "pending"
            => /\ result'.kind \in {"InvalidInput", "Unauthorized", "AlreadyResolved"}
               /\ pool_requests' = pool_requests]_vars

\* C17 witness: the primary rider has accepted and the ride still has only
\* the entries it had.
C17_Witness ==
  /\ result.op = "primary_rider_pool_action"
  /\ \E p \in 1..Len(pool_requests) :
       /\ pool_requests[p].status = "primary_rider_accepted"
       /\ \A i \in 1..Len(rides[pool_requests[p].ride_id].riders) :
            rides[pool_requests[p].ride_id].riders[i].via[1] = "request"

\* C18: an accept or reject of a pool request by a user who is not its
\* primary rider, on the primary rider's route, or not its driver, on the
\* driver's route, is answered Unauthorized and changes neither a pool
\* request nor a ride; a pool request without primary rider has no user
\* whose primary-rider action is let through.
C18_PoolUnauthorized ==
  [][\A u \in UserIds, p \in 1..Len(pool_requests),
        action \in {"accept", "reject"} :
       /\ (primary_rider_pool_action(u, p, action)
           /\ u # pool_requests[p].primary_rider_id)
          => /\ result'.kind = "Unauthorized"
             /\ pool_requests' = pool_requests
             /\ rides' = rides
       /\ \A reason \in Reasons :
            (driver_pool_action(u, p, action, reason)
             /\ u # pool_requests[p].driver_id)
            => /\ result'.kind = "Unauthorized"
               /\ pool_requests' = pool_requests
               /\ rides' = rides]_vars

\* C18 witness: a driver action on an existing pool request has just been
\* answered Unauthorized.
C18_Witness ==
  /\ result = Result("driver_pool_action", "Unauthorized")
  /\ pool_requests # <<>>

\* C19: start, complete, cancel and rider-status update of a ride by a user
\* who is not its driver, and accept or cancel of a request by a user who is
\* not its rider, are answered Unauthorized and change neither a ride nor a
\* request.
C19_Unauthorized ==
  [][/\ \A u \in Drivers, t \in 1..Len(rides) :
          (/\ u # rides[t].driver_id
           /\ \/ start_ride(u, t)
              \/ complete_ride(u, t)
              \/ cancel_ride(u, t)
              \/ \E rider_id \in Requesters, status \in ValidRiderStatuses :
                   update_rider_status(u, t, rider_id, status))
          => /\ result'.kind = "Unauthorized"
             /\ rides' = rides
             /\ requests' = requests
     /\ \A u \in Requesters, q \in 1..Len(requests) :
          (/\ u # requests[q].rider_id
           /\ \/ \E t \in 1..Len(rides) : accept_ride_match(u, q, t)
              \/ cancel_ride_request(u, q))
          => /\ result'.kind = "Unauthorized"
             /\ rides' = rides
             /\ requests' = requests]_vars

\* C20: a step that takes a pool request to accepted takes exactly
\* needed_seats off the available_seats of its ride and appends exactly one
\* entry: the requester's, for needed_seats, shared, and confirmed.
C20_PoolAcceptFunctional ==
  [][\A p \in 1..Len(pool_requests) :
       (/\ pool_requests[p].status # "accepted"
        /\ pool_requests'[p].status = "accepted")
       => LET pr == pool_requests[p]
              ride == rides[pr.ride_id]
              n == Len(ride.riders) IN
          /\ rides'[pr.ride_id].available_seats
               = ride.available_seats - pr.needed_seats
          /\ Len(rides'[pr.ride_id].riders) = n + 1
          /\ SubSeq(rides'[pr.ride_id].riders, 1, n) = ride.riders
          /\ rides'[pr.ride_id].riders[n + 1].rider_id = pr.requester_id
          /\ rides'[pr.ride_id].riders[n + 1].seats = pr.needed_seats
          /\ rides'[pr.ride_id].riders[n + 1].is_shared
          /\ rides'[pr.ride_id].riders[n + 1].status = "confirmed"]_vars

\* C21: a pool request becomes accepted only while its ride is active or
\* in_progress.
C21_PoolJoinNeedsLiveTrip ==
  [][\A p \in 1..Len(pool_requests) :
       (/\ pool_requests[p].status # "accepted"
        /\ pool_requests'[p].status = "accepted")
       => rides[pool_requests[p].ride_id].status \in {"active", "in_progress"}]_vars

\* C22: the shareable flag of a ride changes only while the ride is neither
\* completed nor cancelled.
C22_ShareableOnlyWhileLive ==
  [][\A t \in 1..Len(rides) :
       rides'[t].shareable # rides[t].shareable
       => rides[t].status \notin {"completed", "cancelled"}]_vars

\* C23: cancel_ride and complete_ride leave the available_seats and the
\* rider entries of the ride as they were.
C23_CancelCompleteKeepSeats ==
  [][\A u \in Drivers, t \in 1..Len(rides) :
       (cancel_ride(u, t) \/ complete_ride(u, t))
       => /\ rides'[t].available_seats = rides[t].available_seats
          /\ rides'[t].riders = rides[t].riders]_vars

\* C23 witness: a ride has just been cancelled and still holds a rider entry
\* and the seats taken for it.
C23_Witness ==
  /\ result = Result("cancel_ride", "OK")
  /\ \E t \in 1..Len(rides) :
       /\ rides[t].status = "cancelled"
       /\ rides[t].riders # <<>>
       /\ ~rides[t].seats_edited
       /\ rides[t].available_seats < rides[t].capacity

\* C30: every step that creates a pool request or changes the status of one
\* stores at least one notification.
C30_PoolTransitionNotifies ==
  [][(\/ Len(pool_requests') # Len(pool_requests)
      \/ \E p \in 1..Len(pool_requests) :
           pool_requests'[p].status # pool_requests[p].status)
     => notifications' > notifications]_vars

\* C28: no stored ride request has a requested_seats, and no stored pool
\* request a needed_seats, of zero or less.
C28_PositiveSeatCounts ==
  /\ \A q \in 1..Len(requests) : requests[q].requested_seats > 0
  /\ \A p \in 1..Len(pool_requests) : pool_requests[p].needed_seats > 0

\* C29: a rider entry leaves a ride only in a step that cancels the request
\* it was made for, and only while the ride is active.
C29_EntriesLeaveByCancelOnly ==
  [][\A t \in 1..Len(rides) : \A i \in 1..Len(rides[t].riders) :
       LET e == rides[t].riders[i] IN
       (\A j \in 1..Len(rides'[t].riders) : rides'[t].riders[j].via # e.via)
       => /\ rides[t].status = "active"
          /\ e.via[1] = "request"
          /\ requests[e.via[2]].status # "cancelled"
          /\ requests'[e.via[2]].status = "cancelled"]_vars

\* the active rides whose start is within the radius of the pickup and whose
\* end is within the radius of the dropoff
Candidates(pickup, dropoff, radius_km) ==
  {t \in 1..Len(rides) :
     /\ rides[t].status = "active"
     /\ calculate_distance(pickup, rides[t].start_location) <= radius_km
     /\ calculate_distance(dropoff, rides[t].end_location) <= radius_km}

Min(a, b) == IF a < b THEN a ELSE b

\* C24: a created request is matching exactly when the matcher has a
\* candidate for it and pending otherwise, and it stores the first
\* min(5, number of candidates) entries of the matcher's ranked list, in
\* the order of that list.
C24_AttachMatches ==
  [][Len(requests') = Len(requests) + 1 =>
       LET r == requests'[Len(requests')]
           cands == Candidates(r.pickup_location, r.dropoff_location,
                               RIDE_MATCHING_RADIUS_KM)
           k == Min(5, Cardinality(cands))
           ranked == match_rides(r.pickup_location, r.dropoff_location) IN
       /\ r.status = IF cands # {} THEN "matching" ELSE "pending"
       /\ Len(r.potential_matches) = k
       /\ r.potential_matches = SubSeq(ranked, 1, k)]_vars

\* C24 witness: a matching request that stores five of more than five
\* candidates.
C24_Witness ==
  \E q \in 1..Len(requests) :
    /\ requests[q].status = "matching"
    /\ Len(requests[q].potential_matches) = 5
    /\ Cardinality(Candidates(requests[q].pickup_location,
                              requests[q].dropoff_location,
                              RIDE_MATCHING_RADIUS_KM)) > 5

\* C25: the rides match_rides returns are exactly the active rides whose
\* pickup distance and dropoff distance are both at most the radius, each
\* of them once.
C25_CandidateSet ==
  \A route \in RequestRoutes :
    LET m == match_rides(route[1], route[2])
        cands == Candidates(route[1], route[2], RIDE_MATCHING_RADIUS_KM) IN
    /\ {m[i] : i \in 1..Len(m)} = cands
    /\ Len(m) = Cardinality(cands)

\* C25 witness: active rides at pickup distances 1, 3 and 6, all at dropoff
\* distance 1, of which the matcher has given a request the first two only.
C25_Witness ==
  \E q \in 1..Len(requests) : \E t1, t2, t3 \in 1..Len(rides) :
    /\ requests[q].pickup_location = 1 /\ requests[q].dropoff_location = 9
    /\ rides[t1].status = "active" /\ rides[t2].status = "active"
    /\ rides[t3].status = "active"
    /\ rides[t1].start_location = 0 /\ rides[t1].end_location = 10
    /\ rides[t2].start_location = 4 /\ rides[t2].end_location = 10
    /\ rides[t3].start_location = 7 /\ rides[t3].end_location = 10
    /\ \E i, j \in 1..Len(requests[q].potential_matches) :
         /\ requests[q].potential_matches[i] = t1
         /\ requests[q].potential_matches[j] = t2
    /\ \A i \in 1..Len(requests[q].potential_matches) :
         requests[q].potential_matches[i] # t3

\* a ride's score for a pickup and a dropoff: pickup distance plus dropoff
\* distance
ScoreOf(pickup, dropoff) ==
  [t \in 1..Len(rides) |->
     calculate_distance(pickup, rides[t].start_location)
       + calculate_distance(dropoff, rides[t].end_location)]

DepartureOf == [t \in 1..Len(rides) |-> rides[t].departure_time]

\* no entry of s has a greater key than the entry after it
Ascending(s, key) ==
  \A i \in 1..(Len(s) - 1) : key[s[i]] <= key[s[i + 1]]

\* C26 as stated: the list the request matcher returns and the list a
\* search returns are both in ascending order of score.
C26_BothByScore ==
  /\ \A route \in RequestRoutes :
       Ascending(match_rides(route[1], route[2]), ScoreOf(route[1], route[2]))
  /\ result.op = "search_rides"
       => Ascending(result.rides,
                    ScoreOf(result.query.pickup, result.query.dropoff))

\* C26 amended: the list the request matcher returns is in ascending order
\* of score, and the list a search returns is in ascending order of
\* departure_time.
C26_MatcherByScoreSearchByDeparture ==
  /\ \A route \in RequestRoutes :
       Ascending(match_rides(route[1], route[2]), ScoreOf(route[1], route[2]))
  /\ result.op = "search_rides" => Ascending(result.rides, DepartureOf)

\* C26 witness: a search has returned two rides, the earlier one departing
\* first and having the greater score, and the matcher ranks the same two
\* rides the other way round.
C26_Witness ==
  /\ result.op = "search_rides"
  /\ \E i, j \in 1..Len(result.rides) :
       LET a == result.rides[i]
           b == result.rides[j]
           pickup == result.query.pickup
           dropoff == result.query.dropoff
           m == match_rides(pickup, dropoff) IN
       /\ i < j
       /\ rides[a].departure_time < rides[b].departure_time
       /\ ScoreOf(pickup, dropoff)[a] > ScoreOf(pickup, dropoff)[b]
       /\ \E k, l \in 1..Len(m) : k < l /\ m[k] = b /\ m[l] = a

\* C27 as stated: a search with a departure time returns only rides that
\* depart at most 2 hours before or after it, and returns every active ride
\* within the radius at both ends that departs in that window.
C27_WindowAllActive ==
  (result.op = "search_rides" /\ result.query.departure_time # <<>>) =>
    LET q == result.query
        d == q.departure_time[1]
        returned == {result.rides[i] : i \in 1..Len(result.rides)} IN
    /\ \A t \in returned :
         d - 2 <= rides[t].departure_time /\ rides[t].departure_time <= d + 2
    /\ \A t \in Candidates(q.pickup, q.dropoff, q.radius_km) :
         (d - 2 <= rides[t].departure_time /\ rides[t].departure_time <= d + 2)
           => t \in returned

\* C27 amended: a search with a departure time returns only rides that
\* depart at most 2 hours before or after it, and returns every active ride
\* with at least one available seat that is within the radius at both ends
\* and departs in that window.
C27_WindowAllActiveWithSeat ==
  (result.op = "search_rides" /\ result.query.departure_time # <<>>) =>
    LET q == result.query
        d == q.departure_time[1]
        returned == {result.rides[i] : i \in 1..Len(result.rides)} IN
    /\ \A t \in returned :
         d - 2 <= rides[t].departure_time /\ rides[t].departure_time <= d + 2
    /\ \A t \in Candidates(q.pickup, q.dropoff, q.radius_km) :
         /\ rides[t].available_seats >= 1
         /\ d - 2 <= rides[t].departure_time
         /\ rides[t].departure_time <= d + 2
         => t \in returned

\* C27 witness: a search for Noon has returned a ride that departs exactly
\* 2 hours before and one that departs exactly 2 hours after, and has left
\* out an active ride with a seat, within the radius at both ends, that
\* departs 3 hours after.
C27_Witness ==
  /\ result.op = "search_rides"
  /\ result.query.departure_time = <<Noon>>
  /\ \E i, j \in 1..Len(result.rides) :
       /\ rides[result.rides[i]].departure_time = Noon - 2
       /\ rides[result.rides[j]].departure_time = Noon + 2
  /\ \E t \in Candidates(result.query.pickup, result.query.dropoff,
                         result.query.radius_km) :
       /\ rides[t].available_seats >= 1
       /\ rides[t].departure_time = Noon + 3
       /\ \A i \in 1..Len(result.rides) : result.rides[i] # t

\* C31: the distance of two points is the same in both directions, and the
\* distance of a point from itself is 0.
C31_DistanceSymmetricZero ==
  result.op = "calculate_distance" =>
    /\ result.distance = haversine(result.point2, result.point1)
    /\ result.point1 = result.point2 => result.distance = 0

\* C31 witness: a positive distance has been measured between two points of
\* different longitude and different latitude, one in each hemisphere.
C31_Witness ==
  /\ result.op = "calculate_distance"
  /\ result.point1[1] # result.point2[1]
  /\ result.point1[2] < 0 /\ result.point2[2] > 0
  /\ result.distance > 0

\* the positions, as <<ride, index>>, of the rider entries made for the
\* document d
EntriesFor(d) ==
  {e \in (1..Len(rides)) \X (1..MaxRiders) :
     /\ e[2] <= Len(rides[e[1]].riders)
     /\ rides[e[1]].riders[e[2]].via = d}

\* C32: whatever way the accept_ride_match calls for one request interleave,
\* the rides hold at most one rider entry made for that request.
C32_OneAssignmentPerRequest ==
  \A q \in 1..Len(requests) : Cardinality(EntriesFor(<<"request", q>>)) <= 1

\* C33: whatever driver actions are taken on one pool request, the rides
\* hold at most one rider entry made for it.
C33_OneReservationPerPoolRequest ==
  \A p \in 1..Len(pool_requests) : Cardinality(EntriesFor(<<"pool", p>>)) <= 1

\* the number of rider entries of the rides rs made for the pool request p
PoolEntries(rs, p) ==
  Cardinality({e \in (1..Len(rs)) \X (1..MaxRiders) :
                 /\ e[2] <= Len(rs[e[1]].riders)
                 /\ rs[e[1]].riders[e[2]].via = <<"pool", p>>})

\* C34: once the primary rider has rejected a pool request, no step adds a
\* rider entry for it, and no primary-rider or driver action changes a
\* ride.
C34_RejectedNeverReserves ==
  [][\A p \in 1..Len(pool_requests) :
       pool_requests[p].primary_rejected =>
         /\ PoolEntries(rides', p) <= PoolEntries(rides, p)
         /\ result'.op \in {"primary_rider_pool_action", "driver_pool_action"}
              => rides' = rides]_vars

\* C34 witness: the driver's accept of a pool request that its primary
\* rider has rejected has been refused, and the primary rider still holds
\* the only entry of the ride.
C34_Witness ==
  /\ result = Result("driver_pool_action", "AlreadyResolved")
  /\ \E p \in 1..Len(pool_requests) :
       /\ pool_requests[p].primary_rejected
       /\ pool_requests[p].status = "rejected_by_primary_rider"
       /\ PoolEntries(rides, p) = 0
       /\ Len(rides[pool_requests[p].ride_id].riders) = 1

\* C35: no ride holds a rider entry, other than a cancelled or no_show one,
\* that was made for a request whose status is cancelled.
C35_CancelledHoldsNoSeat ==
  \A q \in 1..Len(requests) :
    requests[q].status = "cancelled" =>
      \A e \in EntriesFor(<<"request", q>>) :
        rides[e[1]].riders[e[2]].status \in {"cancelled", "no_show"}

\* the fields of a pool request that are set when it is created
Parties(pr) ==
  <<pr.ride_id, pr.requester_id, pr.primary_rider_id, pr.driver_id,
    pr.needed_seats>>

\* C36: no step removes a pool request or changes its ride_id, requester_id,
\* primary_rider_id, driver_id or needed_seats.
C36_PoolRequestFrame ==
  [][/\ Len(pool_requests') >= Len(pool_requests)
     /\ \A p \in 1..Len(pool_requests) :
          Parties(pool_requests'[p]) = Parties(pool_requests[p])]_vars

\* C36 witness: the driver has accepted a pool request that has a primary
\* rider and asks for at least one seat, and the ride holds its entry.
C36_Witness ==
  /\ result.op = "driver_pool_action"
  /\ \E p \in 1..Len(pool_requests) :
       /\ pool_requests[p].status = "accepted"
       /\ pool_requests[p].primary_rider_id # Nobody
       /\ pool_requests[p].needed_seats >= 1
       /\ PoolEntries(rides, p) = 1

\* the ids of the in_progress rides of active_rides that the driver d drives
InProgressOf(ar, d) ==
  {i \in 1..Len(ar) : ar[i].driver_id = d /\ ar[i].status = "in_progress"}

\* C37: after every step each driver drives at most one in_progress ride
\* and an available driver drives none, and no accept_ride gives a ride to
\* a driver whose status is busy.
C37_OneRideAtATime ==
  [][/\ \A d \in DOMAIN drivers' :
          /\ Cardinality(InProgressOf(active_rides', d)) <= 1
          /\ drivers'[d].status = "available"
               => InProgressOf(active_rides', d) = {}
     /\ Len(active_rides') > Len(active_rides)
          => drivers[active_rides'[Len(active_rides')].driver_id].status
               # "busy"]_vars

\* C38: complete_ride on a ride whose status is completed changes no
\* driver's points or level and no rider's status.
C38_CompleteOnce ==
  [][\A ride_id \in 1..Len(active_rides) :
       (active_rides[ride_id].status = "completed"
          /\ sim_complete_ride(ride_id))
       => /\ \A d \in DOMAIN drivers :
               /\ drivers'[d].points = drivers[d].points
               /\ drivers'[d].level = drivers[d].level
          /\ \A r \in DOMAIN riders :
               riders'[r].status = riders[r].status]_vars

\* C39: every accept_ride that stores a ride adds an entry to active_rides
\* and leaves the entries that are there as they are.
C39_FreshRideId ==
  [][result' = Result("sim_accept_ride", "OK") /\ active_rides' # active_rides
       => /\ Len(active_rides') = Len(active_rides) + 1
          /\ SubSeq(active_rides', 1, Len(active_rides)) = active_rides]_vars

====
